---- MODULE Spec2Model ----
(***************************************************************************)
(* Thin VRF (Schnorr-style DLEQ) signing and verification of ring-vrf:     *)
(* vrf-ad-kc/src/thin.rs and the fixed-arity wrappers of                   *)
(* bandersnatch_vrfs/src/lib.rs.                                           *)
(*                                                                         *)
(* The curve group is abstracted to the cyclic group Z_(q*h): q is the     *)
(* order of the prime-order subgroup (and of the scalar field), h the      *)
(* small cofactor.  A point is its residue, the small subgroup is the      *)
(* multiples of q, and a scalar acts by its representative in 0..q-1, so   *)
(* that a reduction mod q of a scalar moves a product by a small-subgroup  *)
(* element whenever the point has a small-order component.                 *)
(* The transcript is the sequence of its labelled appends; challenges and  *)
(* witnesses are a deterministic digest of that sequence.                  *)
(***************************************************************************)
EXTENDS Integers, Sequences, FiniteSets, TLC

\* ---- bounds of the model ----
\* longest list of VrfInOut pairs a call is given
MaxN == 2
\* VrfInput points are the MaxInput points that follow the keying base
MaxInput == 2

\* ---- the group and the scalar field ----
ScalarOrder == 5
Cofactor == 2
GroupOrder == ScalarOrder * Cofactor
Scalar == 0 .. (ScalarOrder - 1)
Point == 0 .. (GroupOrder - 1)

\* ark_ec: P.mul(k), P + Q, the scalar field's k + c * x
mul(P, k) == (P * k) % GroupOrder
add(P, Q) == (P + Q) % GroupOrder
scalar_mul_add(k, c, x) == (k + c * x) % ScalarOrder

\* lhs = rhs up to an element of the small-cofactor subgroup
eq_mod_small_cofactor_projective(lhs, rhs) ==
    (Cofactor * (lhs + GroupOrder - rhs)) % GroupOrder = 0

\* thin_vrf(): keying_base = E::generator(), a point of order q
keying_base == 2

\* ---- the transcript ----
LabelCode(label) ==
    CASE label = "ctx" -> 1
      [] label = "PublicKey" -> 2
      [] label = "IOs" -> 3
      [] label = "VrfInOut" -> 4
      [] label = "Witness" -> 5
      [] label = "ThinVrfChallenge" -> 6
      [] label = "MakeWitness" -> 7
      [] label = "VrfDelinearize" -> 8
      [] OTHER -> 9

RECURSIVE absorb(_, _)
absorb(acc, bytes) ==
    IF bytes = <<>> THEN acc
    ELSE absorb((acc * 7 + Head(bytes) + 1) % 1009, Tail(bytes))

RECURSIVE digest(_, _)
digest(acc, t) ==
    IF t = <<>> THEN acc
    ELSE digest(absorb(acc, <<LabelCode(Head(t)[1]), Len(Head(t)[2])>> \o Head(t)[2]),
                Tail(t))

\* SigningTranscript::append, append_u64, append_slice
EncIO(io) == <<io.input, io.preoutput>>

RECURSIVE EncSlice(_)
EncSlice(ios) ==
    IF ios = <<>> THEN <<>> ELSE EncIO(Head(ios)) \o EncSlice(Tail(ios))

append(t, label, bytes) == Append(t, <<label, bytes>>)
append_u64(t, label, n) == Append(t, <<label, <<n>>>>)
append_slice(t, label, ios) == Append(t, <<label, EncSlice(ios)>>)

\* SigningTranscript::challenge: a scalar from every earlier append and the label
challenge(t, label) == digest(1, append(t, label, <<>>)) % ScalarOrder

\* SigningTranscript::witnesses: a scalar from the transcript, the nonce seed and the rng
witnesses(t, label, nonce_seed, rng) ==
    digest(1, append(t, label, <<nonce_seed, rng>>)) % ScalarOrder

\* the transcript a caller hands in: its own label and context already absorbed
InitialTranscript(ctx) == <<<<"ctx", <<ctx>>>>>>

\* ---- the combination engine ----
\* vrfs_delinearize: one coefficient per pair but the last, whose coefficient is 1
delinearize_coeffs(t, n) ==
    [i \in 1 .. n |-> digest(1, append(t, "VrfDelinearize", <<i>>)) % ScalarOrder]

RECURSIVE weighted_sum(_, _, _)
weighted_sum(points, coeffs, i) ==
    IF i > Len(points) THEN 0
    ELSE add(mul(points[i], IF i <= Len(coeffs) THEN coeffs[i] ELSE 1),
             weighted_sum(points, coeffs, i + 1))

vrfs_delinearize(t, ios) ==
    LET cs == delinearize_coeffs(t, Len(ios) - 1)
    IN [input     |-> weighted_sum([i \in 1 .. Len(ios) |-> ios[i].input], cs, 1),
        preoutput |-> weighted_sum([i \in 1 .. Len(ios) |-> ios[i].preoutput], cs, 1)]

schnorr_io(public) == [input |-> keying_base, preoutput |-> public]

NoIO == [input |-> 0, preoutput |-> 0]

\* the frame of one run of thin_vrf_merge: `at` is the next operation it performs
MergeFrame(t, public, ios) ==
    [at |-> "PublicKey", t |-> t, public |-> public, ios |-> ios,
     io |-> NoIO, coeffs |-> <<>>, coeffT |-> <<>>]

\* thin_vrf_merge without line 61: an empty list is counted, appended and delinearized
thin_vrf_merge_no_early_return(m) ==
    CASE m.at = "PublicKey" ->
           [m EXCEPT !.t = append(m.t, "PublicKey", EncIO(schnorr_io(m.public))),
                     !.io = schnorr_io(m.public),
                     !.at = "IOs"]
      [] m.at = "IOs" ->
           [m EXCEPT !.t = append_u64(m.t, "IOs", Len(m.ios)),
                     !.at = "VrfInOut"]
      [] m.at = "VrfInOut" ->
           [m EXCEPT !.t = append_slice(m.t, "VrfInOut", m.ios),
                     !.at = "delinearize"]
      [] m.at = "delinearize" ->
           [m EXCEPT !.io = vrfs_delinearize(m.t, m.ios \o <<m.io>>),
                     !.coeffs = delinearize_coeffs(m.t, Len(m.ios)),
                     !.coeffT = m.t,
                     !.at = "return"]
      [] OTHER -> m

\* thin_vrf_merge with line 64 moved before lines 62-63: challenge, then commit
thin_vrf_merge_challenge_first(m) ==
    CASE m.at = "PublicKey" ->
           [m EXCEPT !.t = append(m.t, "PublicKey", EncIO(schnorr_io(m.public))),
                     !.io = schnorr_io(m.public),
                     !.at = IF Len(m.ios) = 0 THEN "return" ELSE "delinearize"]
      [] m.at = "delinearize" ->
           [m EXCEPT !.io = vrfs_delinearize(m.t, m.ios \o <<m.io>>),
                     !.coeffs = delinearize_coeffs(m.t, Len(m.ios)),
                     !.coeffT = m.t,
                     !.at = "IOs"]
      [] m.at = "IOs" ->
           [m EXCEPT !.t = append_u64(m.t, "IOs", Len(m.ios)),
                     !.at = "VrfInOut"]
      [] m.at = "VrfInOut" ->
           [m EXCEPT !.t = append_slice(m.t, "VrfInOut", m.ios),
                     !.at = "return"]
      [] OTHER -> m

\* thin_vrf_merge with line 64 lacking .chain([ &io ]): the public-key pair is left out
thin_vrf_merge_no_chain(m) ==
    CASE m.at = "PublicKey" ->
           [m EXCEPT !.t = append(m.t, "PublicKey", EncIO(schnorr_io(m.public))),
                     !.io = schnorr_io(m.public),
                     !.at = IF Len(m.ios) = 0 THEN "return" ELSE "IOs"]
      [] m.at = "IOs" ->
           [m EXCEPT !.t = append_u64(m.t, "IOs", Len(m.ios)),
                     !.at = "VrfInOut"]
      [] m.at = "VrfInOut" ->
           [m EXCEPT !.t = append_slice(m.t, "VrfInOut", m.ios),
                     !.at = "delinearize"]
      [] m.at = "delinearize" ->
           [m EXCEPT !.io = vrfs_delinearize(m.t, m.ios),
                     !.coeffs = delinearize_coeffs(m.t, Len(m.ios)),
                     !.coeffT = m.t,
                     !.at = "return"]
      [] OTHER -> m

\* thin_vrf_merge without line 63: the count is appended, the pairs are not
thin_vrf_merge_no_list(m) ==
    CASE m.at = "PublicKey" ->
           [m EXCEPT !.t = append(m.t, "PublicKey", EncIO(schnorr_io(m.public))),
                     !.io = schnorr_io(m.public),
                     !.at = IF Len(m.ios) = 0 THEN "return" ELSE "IOs"]
      [] m.at = "IOs" ->
           [m EXCEPT !.t = append_u64(m.t, "IOs", Len(m.ios)),
                     !.at = "delinearize"]
      [] m.at = "delinearize" ->
           [m EXCEPT !.io = vrfs_delinearize(m.t, m.ios \o <<m.io>>),
                     !.coeffs = delinearize_coeffs(m.t, Len(m.ios)),
                     !.coeffT = m.t,
                     !.at = "return"]
      [] OTHER -> m

\* one operation of thin_vrf_merge
thin_vrf_merge(m) ==
    CASE m.at = "PublicKey" ->
           [m EXCEPT !.t = append(m.t, "PublicKey", EncIO(schnorr_io(m.public))),
                     !.io = schnorr_io(m.public),
                     !.at = IF Len(m.ios) = 0 THEN "return" ELSE "IOs"]
      [] m.at = "IOs" ->
           [m EXCEPT !.t = append_u64(m.t, "IOs", Len(m.ios)),
                     !.at = "VrfInOut"]
      [] m.at = "VrfInOut" ->
           [m EXCEPT !.t = append_slice(m.t, "VrfInOut", m.ios),
                     !.at = "delinearize"]
      [] m.at = "delinearize" ->
           [m EXCEPT !.io = vrfs_delinearize(m.t, m.ios \o <<m.io>>),
                     !.coeffs = delinearize_coeffs(m.t, Len(m.ios)),
                     !.coeffT = m.t,
                     !.at = "return"]
      [] OTHER -> m

\* ---- keys ----
to_public(key) == mul(keying_base, key)
vrf_inout(key, input) == [input |-> input, preoutput |-> mul(input, key)]

\* ---- sign ----
\* new_thin_witness committing to k * keying_base, not to k * combined.input
new_thin_witness_keying_base(t, input, nonce_seed, rng) ==
    LET k == witnesses(t, "MakeWitness", nonce_seed, rng)
    IN [k |-> k, r |-> mul(keying_base, k)]

new_thin_witness(t, input, nonce_seed, rng) ==
    LET k == witnesses(t, "MakeWitness", nonce_seed, rng)
    IN [k |-> k, r |-> mul(input, k)]

\* Witness::sign_final: the transcript after it, and the signature
sign_final(w, t, key) ==
    LET t1 == append(t, "Witness", <<w.r>>)
        c == challenge(t1, "ThinVrfChallenge")
    IN [t |-> t1, c |-> c, r |-> w.r, s |-> scalar_mul_add(w.k, c, key)]

collect_preoutputs_array(ios) == [i \in 1 .. Len(ios) |-> ios[i].preoutput]

\* ---- verify ----
\* vrf::attach_inputs_array zips the N published preoutputs with the inputs given; a
\* number of inputs other than N trips its unchecked assertion
attach_inputs_array_panics(preoutputs, inputs) == Len(inputs) # Len(preoutputs)

attach_inputs_array(preoutputs, inputs) ==
    [i \in 1 .. Len(preoutputs) |-> [input |-> inputs[i], preoutput |-> preoutputs[i]]]

\* verify_final comparing lhs and rhs as points, not up to the small subgroup
verify_final_exact(t, io, sig) ==
    LET t1 == append(t, "Witness", <<sig.r>>)
        c == challenge(t1, "ThinVrfChallenge")
        lhs == mul(io.input, sig.s)
        rhs == add(sig.r, mul(io.preoutput, c))
    IN [t |-> t1, c |-> c, lhs |-> lhs, rhs |-> rhs,
        result |-> IF lhs = rhs THEN "Ok" ELSE "Invalid"]

\* verify_final without line 147: the challenge does not bind r
verify_final_no_witness(t, io, sig) ==
    LET c == challenge(t, "ThinVrfChallenge")
        lhs == mul(io.input, sig.s)
        rhs == add(sig.r, mul(io.preoutput, c))
    IN [t |-> t, c |-> c, lhs |-> lhs, rhs |-> rhs,
        result |-> IF eq_mod_small_cofactor_projective(lhs, rhs) THEN "Ok" ELSE "Invalid"]

\* verify_final appending r under another label than the signer's
verify_final_label(t, io, sig) ==
    LET t1 == append(t, "R", <<sig.r>>)
        c == challenge(t1, "ThinVrfChallenge")
        lhs == mul(io.input, sig.s)
        rhs == add(sig.r, mul(io.preoutput, c))
    IN [t |-> t1, c |-> c, lhs |-> lhs, rhs |-> rhs,
        result |-> IF eq_mod_small_cofactor_projective(lhs, rhs) THEN "Ok" ELSE "Invalid"]

\* verify_final: lines 147-156 of thin.rs
verify_final(t, io, sig) ==
    LET t1 == append(t, "Witness", <<sig.r>>)
        c == challenge(t1, "ThinVrfChallenge")
        lhs == mul(io.input, sig.s)
        rhs == add(sig.r, mul(io.preoutput, c))
    IN [t |-> t1, c |-> c, lhs |-> lhs, rhs |-> rhs,
        result |-> IF eq_mod_small_cofactor_projective(lhs, rhs) THEN "Ok" ELSE "Invalid"]

\* ---- inputs of the model ----
InputPoints == (keying_base + 1) .. (keying_base + MaxInput)
\* what the caller absorbed into its transcript before the call, what the rng
\* yields to a signing call, and the nonce seed of the secret key
Contexts == {0, 1}
RngOutputs == {0, 1}
NonceSeeds == {0, 1}
Arities == 0 .. MaxN
\* secret keys: the nonzero scalars
SecretScalars == Scalar \ {0}

RECURSIVE SeqsUpTo(_, _)
SeqsUpTo(S, n) ==
    IF n = 0 THEN {<<>>}
    ELSE LET shorter == SeqsUpTo(S, n - 1)
         IN shorter \cup {Append(q, x) : q \in {p \in shorter : Len(p) = n - 1}, x \in S}

InputLists == SeqsUpTo(InputPoints, MaxN)

Reverse(q) == [i \in 1 .. Len(q) |-> q[Len(q) + 1 - i]]

\* ---- state ----
VARIABLES
    secret,   \* the signer's SecretKey: key and nonce_seed
    sg,       \* the running or finished sign_thin_vrf call
    prev,     \* the sign_thin_vrf call finished before the one in sg
    vf,       \* the running or finished verify_thin_vrf call
    ring      \* the sign_ring_vrf / verify_ring_vrf call

vars == <<secret, sg, prev, vf, ring>>

NoMerge == MergeFrame(<<>>, 0, <<>>)

IdleSign ==
    [pc |-> "idle", N |-> 0, ctx |-> 0, inputs |-> <<>>, rng |-> 0, m |-> NoMerge,
     k |-> 0, r |-> 0, c |-> 0, s |-> 0, preoutputs |-> <<>>, result |-> "none"]

NoPrev == [valid |-> FALSE, sg |-> IdleSign]

IdleVerify ==
    [pc |-> "idle", arg |-> [ctx |-> 0, inputs |-> <<>>, preoutputs |-> <<>>,
                             public |-> 0, r |-> 0, s |-> 0],
     m |-> NoMerge, c |-> 0, lhs |-> 0, rhs |-> 0, result |-> "none", returned |-> <<>>]

IdleRing == [pc |-> "idle", op |-> "none", N |-> 0, n |-> 0, reason |-> "none",
             appends |-> 0, result |-> "none"]

Init ==
    /\ secret \in [key : SecretScalars, nonce_seed : NonceSeeds]
    /\ sg = IdleSign
    /\ prev = NoPrev
    /\ vf = IdleVerify
    /\ ring = IdleRing

\* a panic unwinds the calling thread: nothing runs after it
Panicked == sg.pc = "panic" \/ vf.pc = "panic" \/ ring.pc = "panic"

\* ---- bandersnatch_vrfs SecretKey::sign_thin_vrf::<N> ----
\* assert_eq!(ios.len(), N), then dleq_vrf's sign_thin_vrf starts on the caller's transcript
SignCall ==
    /\ sg.pc = "idle" /\ ~Panicked /\ ring.pc = "idle"
    /\ \E N \in Arities, ctx \in Contexts, inputs \in InputLists, rng \in RngOutputs :
          LET ios == [i \in 1 .. Len(inputs) |-> vrf_inout(secret.key, inputs[i])]
          IN sg' = [IdleSign EXCEPT
                      !.pc = IF Len(ios) = N THEN "merge" ELSE "panic",
                      !.result = IF Len(ios) = N THEN "none" ELSE "panic",
                      !.N = N, !.ctx = ctx, !.inputs = inputs, !.rng = rng,
                      !.m = MergeFrame(InitialTranscript(ctx), to_public(secret.key), ios)]
    /\ UNCHANGED <<secret, prev, vf, ring>>

\* thin.rs:93, one transcript operation of thin_vrf_merge at a time
SignMerge ==
    /\ sg.pc = "merge" /\ sg.m.at # "return"
    /\ sg' = [sg EXCEPT !.m = thin_vrf_merge(sg.m)]
    /\ UNCHANGED <<secret, prev, vf, ring>>

\* thin.rs:95, new_thin_witness on the merged transcript
SignWitness ==
    /\ sg.pc = "merge" /\ sg.m.at = "return"
    /\ LET w == new_thin_witness(sg.m.t, sg.m.io.input, secret.nonce_seed, sg.rng)
       IN sg' = [sg EXCEPT !.pc = "final", !.k = w.k, !.r = w.r]
    /\ UNCHANGED <<secret, prev, vf, ring>>

\* thin.rs:95 sign_final, then lib.rs:108-109
SignFinal ==
    /\ sg.pc = "final"
    /\ LET f == sign_final([k |-> sg.k, r |-> sg.r], sg.m.t, secret.key)
       IN sg' = [sg EXCEPT !.pc = "done", !.result = "Ok", !.c = f.c, !.s = f.s,
                           !.m = [sg.m EXCEPT !.t = f.t],
                           !.preoutputs = collect_preoutputs_array(sg.m.ios)]
    /\ UNCHANGED <<secret, prev, vf, ring>>

\* the signer signs again with the same secret key
SignAgain ==
    /\ sg.pc = "done" /\ ~prev.valid /\ vf.pc = "idle"
    /\ prev' = [valid |-> TRUE, sg |-> sg]
    /\ sg' = IdleSign
    /\ UNCHANGED <<secret, vf, ring>>

\* ---- bandersnatch_vrfs ThinVrfSignature::verify_thin_vrf ----
\* what an honest verifier of the signature in sg is given
Honest ==
    [ctx |-> sg.ctx, inputs |-> sg.inputs, preoutputs |-> sg.preoutputs,
     public |-> to_public(secret.key), r |-> sg.r, s |-> sg.s]

\* the same with one part replaced (or with r and s both, a forged signature)
Tampered(h) ==
    {h}
    \cup {[h EXCEPT !.r = x] : x \in Point}
    \cup {[h EXCEPT !.s = x] : x \in Scalar}
    \cup {[h EXCEPT !.r = x, !.s = y] : x \in Point, y \in Scalar}
    \cup {[h EXCEPT !.public = x] : x \in Point}
    \cup {[h EXCEPT !.ctx = x] : x \in Contexts}
    \cup {[h EXCEPT !.inputs = Reverse(h.inputs), !.preoutputs = Reverse(h.preoutputs)]}
    \cup {[h EXCEPT !.preoutputs = [i \in 1 .. Len(h.preoutputs) |->
                                       IF i = 1 THEN x ELSE h.preoutputs[i]]] : x \in Point}
    \cup {[h EXCEPT !.inputs = q] : q \in {p \in InputLists : Len(p) = Len(h.inputs)}}
    \cup {[h EXCEPT !.inputs = SubSeq(h.inputs, 1, Len(h.inputs) - 1)]}
    \cup {[h EXCEPT !.inputs = Append(h.inputs, x)] : x \in InputPoints}

\* lib.rs:148: attach_inputs_array, then thin.rs verify_thin_vrf starts
VerifyCall ==
    /\ sg.pc = "done" /\ vf.pc = "idle" /\ ~prev.valid
    /\ \E a \in Tampered(Honest) :
          vf' = IF attach_inputs_array_panics(a.preoutputs, a.inputs)
                THEN [IdleVerify EXCEPT !.pc = "panic", !.arg = a, !.result = "panic"]
                ELSE [IdleVerify EXCEPT
                        !.pc = "merge", !.arg = a,
                        !.m = MergeFrame(InitialTranscript(a.ctx), a.public,
                                         attach_inputs_array(a.preoutputs, a.inputs))]
    /\ UNCHANGED <<secret, sg, prev, ring>>

\* thin.rs:144
VerifyMerge ==
    /\ vf.pc = "merge" /\ vf.m.at # "return"
    /\ vf' = [vf EXCEPT !.m = thin_vrf_merge(vf.m)]
    /\ UNCHANGED <<secret, sg, prev, ring>>

\* thin.rs:147-156, then lib.rs:149-150
VerifyFinal ==
    /\ vf.pc = "merge" /\ vf.m.at = "return"
    /\ LET f == verify_final(vf.m.t, vf.m.io, [r |-> vf.arg.r, s |-> vf.arg.s])
       IN vf' = [vf EXCEPT !.pc = "done", !.c = f.c, !.lhs = f.lhs, !.rhs = f.rhs,
                           !.m = [vf.m EXCEPT !.t = f.t],
                           !.result = f.result,
                           !.returned = IF f.result = "Ok" THEN vf.m.ios ELSE <<>>]
    /\ UNCHANGED <<secret, sg, prev, ring>>

\* ---- the Pedersen entry points of lib.rs ----
\* pedersen_vrf(): `let blinding_base = unimplemented!();`
pedersen_vrf == "unimplemented"

\* lib.rs:112-120
RingSignCall ==
    /\ sg.pc = "idle" /\ ring.pc = "idle" /\ ~prev.valid
    /\ \E N \in Arities, inputs \in InputLists :
          ring' = [IdleRing EXCEPT
                     !.pc = "panic", !.op = "sign_ring_vrf", !.N = N, !.n = Len(inputs),
                     !.reason = IF Len(inputs) # N THEN "assert_eq" ELSE pedersen_vrf,
                     !.result = "panic"]
    /\ UNCHANGED <<secret, sg, prev, vf>>

\* lib.rs:164-179
RingVerifyCall ==
    /\ sg.pc = "idle" /\ ring.pc = "idle" /\ ~prev.valid
    /\ \E N \in Arities, inputs \in InputLists :
          ring' = [IdleRing EXCEPT
                     !.pc = "panic", !.op = "verify_ring_vrf", !.N = N, !.n = Len(inputs),
                     !.reason = IF Len(inputs) # N THEN "attach_inputs_array" ELSE pedersen_vrf,
                     !.result = "panic"]
    /\ UNCHANGED <<secret, sg, prev, vf>>

Next ==
    \/ SignCall \/ SignMerge \/ SignWitness \/ SignFinal
    \/ VerifyCall \/ VerifyMerge \/ VerifyFinal
    \/ RingSignCall \/ RingVerifyCall

Spec == Init /\ [][Next]_vars

NextTwo == SignCall \/ SignMerge \/ SignWitness \/ SignFinal \/ SignAgain

SpecTwo == Init /\ [][NextTwo]_vars

\* ---- the vocabulary of the properties ----
\* P lies in the small-cofactor subgroup; P and Q differ by an element of it
InSmallSubgroup(P) == P % ScalarOrder = 0
SameUpToSmallSubgroup(P, Q) == P % ScalarOrder = Q % ScalarOrder

\* coeffs[1] * points[1] + ... + coeffs[n] * points[n]
RECURSIVE Sum(_, _, _)
Sum(points, coeffs, n) ==
    IF n = 0 THEN 0 ELSE (Sum(points, coeffs, n - 1) + coeffs[n] * points[n]) % GroupOrder

Inputs(ios) == [i \in 1 .. Len(ios) |-> ios[i].input]
PreOutputs(ios) == [i \in 1 .. Len(ios) |-> ios[i].preoutput]

\* the appends thin_vrf_merge owes the transcript for a public key and a pair list
MergeAppends(public, ios) ==
    IF Len(ios) = 0
    THEN << <<"PublicKey", <<keying_base, public>>>> >>
    ELSE << <<"PublicKey", <<keying_base, public>>>>,
            <<"IOs", <<Len(ios)>>>>,
            <<"VrfInOut", EncSlice(ios)>> >>

WitnessAppend(r) == << <<"Witness", <<r>>>> >>

Labels(t) == {t[i][1] : i \in 1 .. Len(t)}

\* the runs of thin_vrf_merge in the state, each with the transcript it started from
SignFrame == [m |-> sg.m, t0 |-> InitialTranscript(sg.ctx)]
VerifyFrame == [m |-> vf.m, t0 |-> InitialTranscript(vf.arg.ctx)]
Frames ==
    (IF sg.pc \in {"merge", "final", "done"} THEN {SignFrame} ELSE {})
    \cup (IF vf.pc \in {"merge", "done"} THEN {VerifyFrame} ELSE {})

\* what a run appended to the transcript it was handed
Appended(f) == SubSeq(f.m.t, Len(f.t0) + 1, Len(f.m.t))

\* the pairs the verifier rebuilt from what it was given
GivenPairs == attach_inputs_array(vf.arg.preoutputs, vf.arg.inputs)

\* how the verifier's arguments differ from the honest ones
OnlyR == vf.arg.r # Honest.r /\ vf.arg = [Honest EXCEPT !.r = vf.arg.r]
OnlyS == vf.arg.s # Honest.s /\ vf.arg = [Honest EXCEPT !.s = vf.arg.s]
OnlyPublic == vf.arg.public # Honest.public /\ vf.arg = [Honest EXCEPT !.public = vf.arg.public]
Reordered ==
    /\ Reverse(Honest.inputs) # Honest.inputs
    /\ vf.arg = [Honest EXCEPT !.inputs = Reverse(Honest.inputs),
                               !.preoutputs = Reverse(Honest.preoutputs)]

\* ---- C1 ----
\* C1: a signature made by sign_thin_vrf over pairs with preoutput = key * input is
\* accepted by verify_thin_vrf run on its own transcript from the same initial state
\* with the same pairs and the signer's public key.
ThinVrfCompleteness ==
    (vf.pc = "done" /\ vf.arg = Honest) => vf.result = "Ok"

ThinVrfCompletenessWitness ==
    /\ vf.pc = "done" /\ vf.arg = Honest /\ vf.result = "Ok"
    /\ Len(sg.inputs) = 2 /\ sg.inputs[1] # sg.inputs[2]
    /\ secret.key > 1 /\ ~InSmallSubgroup(sg.r)
    /\ vf.lhs # vf.rhs

\* ---- C2 ----
\* C2: verify_thin_vrf returns Ok exactly when s * combined.input and
\* r + c * combined.preoutput agree up to the small-cofactor subgroup, combined being the
\* merge of the public-key pair with the given pairs and c the challenge after r was
\* appended; otherwise it returns Invalid; on Ok it returns the pairs it was given.
VerifyDecision ==
    vf.pc = "done" =>
        LET ios == GivenPairs
            n == Len(ios)
            tm == InitialTranscript(vf.arg.ctx) \o MergeAppends(vf.arg.public, ios)
            cs == delinearize_coeffs(tm, n)
            input == add(Sum(Inputs(ios), cs, n), keying_base)
            preoutput == add(Sum(PreOutputs(ios), cs, n), vf.arg.public)
            c == challenge(tm \o WitnessAppend(vf.arg.r), "ThinVrfChallenge")
            holds == SameUpToSmallSubgroup(mul(input, vf.arg.s),
                                           add(vf.arg.r, mul(preoutput, c)))
        IN /\ vf.result = (IF holds THEN "Ok" ELSE "Invalid")
           /\ vf.result = "Ok" => vf.returned = ios

VerifyDecisionWitness ==
    /\ vf.pc = "done" /\ vf.result = "Ok" /\ vf.lhs # vf.rhs
    /\ Len(vf.returned) = 2 /\ vf.returned[1] # vf.returned[2]

\* ---- C3 ----
\* C3 as stated: with r or s replaced by another value, or the public key replaced, or
\* the pairs given in another order, verification of a verifying signature fails.
TamperingAlwaysRejected ==
    (vf.pc = "done" /\ (OnlyR \/ OnlyS \/ OnlyPublic \/ Reordered)) => vf.result = "Invalid"

\* C3 as amended: a replaced s is rejected whenever combined.input lies outside the
\* small-cofactor subgroup (always so for an empty pair list); a replaced r is rejected
\* exactly when r' + c' * preoutput and r + c * preoutput differ outside the small
\* subgroup, c' being the challenge re-derived from r'; a replaced public key or a
\* reordered list is rejected exactly when the equation fails for the challenge and the
\* combined pair re-derived from them.  Every rejection is the error Invalid.
TamperingRejectedWhen ==
    vf.pc = "done" =>
        /\ (OnlyS /\ ~InSmallSubgroup(sg.m.io.input)) => vf.result = "Invalid"
        /\ (OnlyS /\ Len(sg.inputs) = 0) => vf.result = "Invalid"
        /\ OnlyR =>
              (vf.result = "Invalid" <=>
                  ~SameUpToSmallSubgroup(add(vf.arg.r, mul(sg.m.io.preoutput, vf.c)),
                                         add(sg.r, mul(sg.m.io.preoutput, sg.c))))
        /\ (OnlyPublic \/ Reordered) =>
              (vf.result = "Invalid" <=>
                  ~SameUpToSmallSubgroup(mul(vf.m.io.input, sg.s),
                                         add(sg.r, mul(vf.m.io.preoutput, vf.c))))
        /\ (OnlyR \/ OnlyS \/ OnlyPublic \/ Reordered) => vf.result \in {"Ok", "Invalid"}

TamperingRejectedWitness ==
    /\ vf.pc = "done" /\ OnlyS /\ vf.result = "Invalid"
    /\ Len(sg.inputs) = 2 /\ ~InSmallSubgroup(sg.m.io.input)

\* ---- C4 ----
\* C4: a call given a number of pairs (or inputs) other than the declared arity N
\* reports InvalidArity, the transcript untouched and no merge begun.
ArityMismatchReported ==
    /\ (sg.pc # "idle" /\ Len(sg.inputs) # sg.N) =>
          /\ sg.result = "InvalidArity"
          /\ sg.m.t = InitialTranscript(sg.ctx) /\ sg.m.at = "PublicKey"
    /\ (vf.pc # "idle" /\ Len(vf.arg.inputs) # Len(vf.arg.preoutputs)) =>
          /\ vf.result = "InvalidArity"
          /\ vf.m = NoMerge
    /\ (ring.pc # "idle" /\ ring.n # ring.N) =>
          /\ ring.result = "InvalidArity"
          /\ ring.appends = 0

\* ---- C5 ----
\* what C5 says of every run with an empty pair list, but for the verifier's decision:
\* thin_vrf_merge appends the public-key pair alone, derives no coefficient and returns
\* (keying_base, public); the signer's r is k * keying_base and its s is k + c * key.
DegenerateMergeAndSign ==
    /\ \A f \in Frames :
          Len(f.m.ios) = 0 =>
             /\ Labels(f.m.t) \cap {"IOs", "VrfInOut"} = {}
             /\ f.m.coeffs = <<>> /\ f.m.coeffT = <<>>
             /\ f.m.at = "return" =>
                   /\ f.m.io = [input |-> keying_base, preoutput |-> f.m.public]
                   /\ SubSeq(f.m.t, 1, Len(f.t0) + 1) = f.t0 \o MergeAppends(f.m.public, <<>>)
    /\ (sg.pc = "done" /\ Len(sg.inputs) = 0) =>
          /\ sg.r = mul(keying_base, sg.k)
          /\ sg.s = (sg.k + sg.c * secret.key) % ScalarOrder
          /\ sg.m.t = InitialTranscript(sg.ctx)
                        \o MergeAppends(to_public(secret.key), <<>>) \o WitnessAppend(sg.r)
          /\ sg.c = challenge(sg.m.t, "ThinVrfChallenge")

\* C5 as stated: with an empty pair list signing and verification are a Schnorr
\* signature over the public key, accepted iff s * keying_base = r + c * public.
DegenerateSchnorrExact ==
    /\ DegenerateMergeAndSign
    /\ (vf.pc = "done" /\ Len(vf.m.ios) = 0) =>
          (vf.result = "Ok" <=>
              mul(keying_base, vf.arg.s) = add(vf.arg.r, mul(vf.arg.public, vf.c)))

\* C5 as amended: the same, the signature accepted iff s * keying_base and
\* r + c * public agree up to the small-cofactor subgroup.
DegenerateSchnorr ==
    /\ DegenerateMergeAndSign
    /\ (vf.pc = "done" /\ Len(vf.m.ios) = 0) =>
          /\ vf.c = challenge(InitialTranscript(vf.arg.ctx)
                                \o MergeAppends(vf.arg.public, <<>>)
                                \o WitnessAppend(vf.arg.r), "ThinVrfChallenge")
          /\ vf.result = "Ok" <=>
                SameUpToSmallSubgroup(mul(keying_base, vf.arg.s),
                                      add(vf.arg.r, mul(vf.arg.public, vf.c)))

DegenerateSchnorrWitness ==
    /\ sg.pc = "done" /\ Len(sg.inputs) = 0 /\ sg.k # 0 /\ sg.c # 0
    /\ vf.pc = "done" /\ Len(vf.m.ios) = 0 /\ vf.result = "Ok"
    /\ ~InSmallSubgroup(vf.arg.r)
    /\ mul(keying_base, vf.arg.s) # add(vf.arg.r, mul(vf.arg.public, vf.c))

\* ---- C6 ----
\* C6: a sign_ring_vrf call given as many pairs as its arity completes and returns a
\* signature (two of them, made with different blinding scalars, carry different compk),
\* and verify_ring_vrf given as many inputs as its arity completes and accepts it.
PedersenCallsComplete ==
    (ring.pc # "idle" /\ ring.n = ring.N) => ring.result = "Ok"

\* ---- C7 ----
\* what C7 says of a verifier given the signer's initial transcript, public key, pairs
\* and r: both runs append PublicKey, then (N > 0) IOs and VrfInOut, then Witness, the
\* same values under the same labels, and derive the same challenge.
Mirrored ==
    /\ vf.pc = "done"
    /\ vf.arg.ctx = sg.ctx /\ vf.arg.public = to_public(secret.key)
    /\ GivenPairs = sg.m.ios /\ vf.arg.r = sg.r

MirroredRuns ==
    Mirrored =>
        /\ Appended(VerifyFrame) = Appended(SignFrame)
        /\ Appended(SignFrame) = MergeAppends(to_public(secret.key), sg.m.ios)
                                    \o WitnessAppend(sg.r)
        /\ vf.m.t = sg.m.t
        /\ vf.c = sg.c

\* C7 as stated: mirrored runs derive the same challenge, and a verifier of the
\* signer's signature whose appends differ from the signer's in a label or a value
\* derives another challenge and rejects.
TranscriptMirroringExact ==
    /\ MirroredRuns
    /\ (vf.pc = "done" /\ vf.arg.s = sg.s /\ Appended(VerifyFrame) # Appended(SignFrame)) =>
          (vf.c # sg.c /\ vf.result = "Invalid")

\* C7 as amended: mirrored runs derive the same challenge; a verifier whose challenge
\* differs from the signer's, its combined pair and r agreeing with the signer's up to
\* the small-cofactor subgroup and the combined preoutput lying outside it, rejects.
TranscriptMirroring ==
    /\ MirroredRuns
    /\ ( /\ vf.pc = "done" /\ vf.arg.s = sg.s /\ vf.c # sg.c
         /\ SameUpToSmallSubgroup(vf.m.io.input, sg.m.io.input)
         /\ SameUpToSmallSubgroup(vf.m.io.preoutput, sg.m.io.preoutput)
         /\ SameUpToSmallSubgroup(vf.arg.r, sg.r)
         /\ ~InSmallSubgroup(sg.m.io.preoutput) )
       => vf.result = "Invalid"

TranscriptMirroringWitness ==
    /\ Mirrored /\ Len(sg.m.ios) = 2 /\ vf.result = "Ok" /\ Len(vf.m.t) = 5

TranscriptDivergedWitness ==
    /\ vf.pc = "done" /\ vf.arg.s = sg.s /\ vf.c # sg.c /\ vf.arg.r # sg.r
    /\ SameUpToSmallSubgroup(vf.arg.r, sg.r) /\ vf.m.io = sg.m.io
    /\ ~InSmallSubgroup(sg.m.io.preoutput) /\ vf.result = "Invalid"

\* ---- C8 ----
\* C8: in every run of thin_vrf_merge with N > 0 the coefficients are derived from a
\* transcript that already holds the public-key pair, the count N and all N pairs,
\* appended in that order after the caller's own appends; a run that returned derived them.
CommitBeforeChallenge ==
    \A f \in Frames :
        /\ f.m.coeffs # <<>> =>
              f.m.coeffT = f.t0 \o MergeAppends(f.m.public, f.m.ios)
        /\ (f.m.at = "return" /\ Len(f.m.ios) > 0) =>
              /\ Len(f.m.coeffs) = Len(f.m.ios)
              /\ f.m.coeffs = delinearize_coeffs(f.m.coeffT, Len(f.m.ios))

CommitBeforeChallengeWitness ==
    \E f \in Frames :
        /\ Len(f.m.ios) = 2 /\ f.m.at = "return" /\ Len(f.m.coeffs) = 2
        /\ f.m.coeffs[1] # f.m.coeffs[2]

\* ---- C9 ----
\* C9: for N > 0 pairs thin_vrf_merge derives N coefficients, one per pair, and returns
\* input = sum of c_i * input_i + 1 * keying_base and
\* preoutput = sum of c_i * preoutput_i + 1 * public.
CombinationResult ==
    \A f \in Frames :
        (f.m.at = "return" /\ Len(f.m.ios) > 0) =>
            /\ Len(f.m.coeffs) = Len(f.m.ios)
            /\ f.m.io.input =
                 add(Sum(Inputs(f.m.ios), f.m.coeffs, Len(f.m.ios)), mul(keying_base, 1))
            /\ f.m.io.preoutput =
                 add(Sum(PreOutputs(f.m.ios), f.m.coeffs, Len(f.m.ios)), mul(f.m.public, 1))

CombinationResultWitness ==
    \E f \in Frames :
        /\ f.m.at = "return" /\ Len(f.m.ios) = 2
        /\ f.m.coeffs[1] > 1 /\ f.m.coeffs[2] > 1 /\ f.m.coeffs[1] # f.m.coeffs[2]
        /\ f.m.ios[1] # f.m.ios[2] /\ f.m.io.input # keying_base

\* ---- C10 ----
\* the transcript new_thin_witness read in a finished signing call
MergedTranscript(call) == SubSeq(call.m.t, 1, Len(call.m.t) - 1)

TwoSigned == prev.valid /\ sg.pc = "done"

\* C10 as stated: two signing calls with the same secret key that obtain the same k
\* obtain the same r, the same c and the same s.
WitnessNeverReusedExact ==
    (TwoSigned /\ prev.sg.k = sg.k) =>
        (prev.sg.r = sg.r /\ prev.sg.c = sg.c /\ prev.sg.s = sg.s)

\* C10 as amended: two signing calls with the same secret key that obtain the same k
\* from the same merged transcript state obtain the same r, c and s.
WitnessNeverReused ==
    (TwoSigned /\ prev.sg.k = sg.k /\ MergedTranscript(prev.sg) = MergedTranscript(sg)) =>
        (prev.sg.r = sg.r /\ prev.sg.c = sg.c /\ prev.sg.s = sg.s)

WitnessNeverReusedWitness ==
    /\ TwoSigned /\ prev.sg.k = sg.k /\ MergedTranscript(prev.sg) = MergedTranscript(sg)
    /\ Len(sg.inputs) = 2 /\ sg.k # 0 /\ sg.c # 0 /\ ~InSmallSubgroup(sg.r)

====
